---- MODULE Spec2Model ----
(***************************************************************************)
(* Credential lifecycle of the Google Workspace MCP server:                *)
(*   src/src/auth/google_auth.py    GoogleAuthManager                      *)
(*   src/src/utils/scope_manager.py ScopeManager                           *)
(*   src/src/server.py              handle_call_tool (the caller of        *)
(*                                  initialize and of the tools)           *)
(*   src/src/tools/calendar.py      _get_service (get_credentials)         *)
(*                                                                         *)
(* The token exchange (creds.refresh, flow.run_local_server) is treated as *)
(* a suspension point: a call that starts one stays "in flight" while      *)
(* other callers run.  A run in which every exchange completes in the step *)
(* after it started is the fully synchronous behaviour of the code.        *)
(*                                                                         *)
(* google.oauth2 Credentials objects are external: a credential is the     *)
(* record of the attributes the code reads (expiry, refresh_token, scopes, *)
(* the presence of an access token); `valid` and `expired` are the         *)
(* library's properties of these (token present and not expired; expiry    *)
(* reached).  An object keeps its id when refreshed in place and every     *)
(* issued token gets a fresh ver, so ver orders credentials by issue.      *)
(*                                                                         *)
(* Spec and FairSpec are the authentication manager with its callers;      *)
(* ScopeSpec is the ScopeManager alone, applied to every configuration of  *)
(* ScopeConfigs.                                                           *)
(***************************************************************************)
EXTENDS Integers, Sequences, FiniteSets, TLC

\* ------------------------------------------------------------- bounds
NumCallers == 2
MaxCalls == 3
MaxTicks == 1
\* Longest list of scopes handed to has_scope_changes.
MaxScopeListLen == 3

Callers == 1..NumCallers

\* ------------------------------------------------- program constants
TOKEN_REFRESH_BUFFER == 600
\* creds.expiry is None
NoExpiry == -1

\* ------------------------------------------------------ ScopeManager
\* Service names in one fixed iteration order (Python iterates a set in an
\* order that is fixed within a run).
ServiceOrder == <<"calendar", "gmail", "docs", "drive", "sheets", "slides">>
Services == {ServiceOrder[i] : i \in 1..Len(ServiceOrder)}

RequiredKeys == <<"enabled_services", "scope_dependencies", "scope_mappings">>

DefaultMappings ==
    [s \in Services |->
        CASE s = "calendar" -> "auth/calendar"
          [] s = "gmail"    -> "auth/gmail.modify"
          [] s = "docs"     -> "auth/documents"
          [] s = "sheets"   -> "auth/spreadsheets"
          [] s = "slides"   -> "auth/presentations"
          [] s = "drive"    -> "auth/drive.file"]

DefaultDependencies == [s \in {"docs", "sheets", "slides"} |-> {"drive"}]

\* _get_default_config: calendar, gmail, docs and drive enabled.
DefaultConfig ==
    [keys |-> {"enabled_services", "scope_dependencies", "scope_mappings"},
     enabled_services |-> [s \in {"calendar", "gmail", "docs", "drive"} |-> TRUE],
     scope_dependencies |-> DefaultDependencies,
     scope_mappings |-> DefaultMappings]

\* config/scopes.json as the operator may have written it.
ConfigCalendarGmail ==
    [DefaultConfig EXCEPT !.enabled_services =
        [s \in {"calendar", "gmail", "docs", "drive"} |-> s \in {"calendar", "gmail"}]]

ConfigCalendarOnly ==
    [DefaultConfig EXCEPT !.enabled_services =
        [s \in {"calendar", "gmail", "docs", "drive"} |-> s = "calendar"]]

\* docs enabled while drive, which it depends on, is disabled.
ConfigDocsNoDrive ==
    [DefaultConfig EXCEPT !.enabled_services =
        [s \in {"calendar", "gmail", "docs", "drive"} |-> s \in {"calendar", "docs"}]]

\* The configurations _load_config may return.
Configs == {ConfigCalendarGmail, ConfigCalendarOnly, ConfigDocsNoDrive}

\* config/scopes.json as any operator may have written it, over three services
\* of which docs requires drive and, in the longest chain, drive requires
\* calendar.  A key may be missing, a service may be absent from
\* enabled_services or disabled, a service may lack its mapping, and docs and
\* drive may be mapped to one and the same scope.
ScopeServices == {"calendar", "docs", "drive"}

KeyChoices ==
    {{"enabled_services", "scope_dependencies", "scope_mappings"},
     {"scope_dependencies", "scope_mappings"},
     {"enabled_services", "scope_mappings"},
     {"enabled_services", "scope_dependencies"},
     {}}

EnabledChoices == UNION {[dom -> BOOLEAN] : dom \in SUBSET ScopeServices}

DependencyChoices ==
    {<< >>,
     [s \in {"docs"} |-> {"drive"}],
     [s \in {"docs", "drive"} |-> IF s = "docs" THEN {"drive"} ELSE {"calendar"}]}

MappingChoices ==
    {[s \in ScopeServices |-> DefaultMappings[s]],
     [s \in ScopeServices \ {"drive"} |-> DefaultMappings[s]],
     [s \in ScopeServices \ {"calendar"} |-> DefaultMappings[s]],
     [s \in ScopeServices |-> IF s = "docs" THEN DefaultMappings["drive"]
                                            ELSE DefaultMappings[s]]}

ScopeConfigs ==
    {[keys |-> k, enabled_services |-> e, scope_dependencies |-> d,
      scope_mappings |-> m] :
        k \in KeyChoices, e \in EnabledChoices, d \in DependencyChoices,
        m \in MappingChoices}

\* What may be at config_path when a ScopeManager is constructed: no file, a
\* file that json.load rejects, or a file holding a configuration.
ConfigFiles ==
    {[exists |-> e, valid_json |-> v, json |-> j] :
        e \in BOOLEAN, v \in BOOLEAN, j \in Configs}

\* Mutation: a file that cannot be parsed yields an empty configuration.
_load_config_EmptyOnError(file) ==
    IF ~file.exists THEN DefaultConfig
    ELSE IF file.valid_json THEN file.json
    ELSE [DefaultConfig EXCEPT !.keys = {}]

\* _load_config: the defaults when the file is absent or json.load raises.
_load_config(file) ==
    IF ~file.exists THEN DefaultConfig
    ELSE IF file.valid_json THEN file.json
    ELSE DefaultConfig

\* self.config.get(key, {})
ConfigGet(cfg, key) ==
    IF key \in cfg.keys
    THEN CASE key = "enabled_services"   -> cfg.enabled_services
           [] key = "scope_dependencies" -> cfg.scope_dependencies
           [] key = "scope_mappings"     -> cfg.scope_mappings
    ELSE << >>

get_enabled_services(cfg) ==
    LET es == ConfigGet(cfg, "enabled_services")
    IN  {s \in DOMAIN es : es[s]}

\* enabled services plus the direct dependencies of each (one level).
RequiredServices(enabled_services, dependencies) ==
    enabled_services \cup
    UNION {dependencies[s] : s \in enabled_services \cap DOMAIN dependencies}

\* The list of scopes: one entry per required service that has a mapping; a
\* service without one is skipped with a warning.
get_required_scopes(cfg) ==
    LET required_services ==
            RequiredServices(get_enabled_services(cfg),
                             ConfigGet(cfg, "scope_dependencies"))
        scope_mappings == ConfigGet(cfg, "scope_mappings")
        mapped == SelectSeq(ServiceOrder,
                      LAMBDA s : s \in required_services /\ s \in DOMAIN scope_mappings)
    IN  [i \in 1..Len(mapped) |-> scope_mappings[mapped[i]]]

SeqToSet(q) == {q[i] : i \in 1..Len(q)}

\* set(self.get_required_scopes())
RequiredScopeSet(cfg) == SeqToSet(get_required_scopes(cfg))

\* list(self.creds.scopes): the elements in some order, each once.
ListOf(S) == CHOOSE q \in [1..Cardinality(S) -> S] : SeqToSet(q) = S

\* Mutation: a credential granting more than is required passes as unchanged.
has_scope_changes_Subset(cfg, current_scopes) ==
    ~(RequiredScopeSet(cfg) \subseteq SeqToSet(current_scopes))

\* Mutation: the two lists are compared as lists.
has_scope_changes_Ordered(cfg, current_scopes) ==
    get_required_scopes(cfg) # current_scopes

\* current_scopes is a list; both sides are compared as sets.
has_scope_changes(cfg, current_scopes) ==
    RequiredScopeSet(cfg) # SeqToSet(current_scopes)

\* Mutation: only a dependency missing from enabled_services counts as unmet,
\* a disabled one passes.
_validate_dependencies_AbsentOnly(cfg, enabled_services, dependencies) ==
    {[kind |-> "dependency", service |-> s, dep |-> d] :
        <<s, d>> \in {sd \in (enabled_services \cap DOMAIN dependencies) \X Services :
                        /\ sd[2] \in dependencies[sd[1]]
                        /\ sd[2] \notin DOMAIN cfg.enabled_services}}

_validate_dependencies(cfg, enabled_services, dependencies) ==
    {[kind |-> "dependency", service |-> s, dep |-> d] :
        <<s, d>> \in {sd \in (enabled_services \cap DOMAIN dependencies) \X Services :
                        /\ sd[2] \in dependencies[sd[1]]
                        /\ \/ sd[2] \notin DOMAIN cfg.enabled_services
                           \/ ~cfg.enabled_services[sd[2]]}}

\* Mutation: only the dependencies are checked for a mapping, the enabled
\* services themselves are not.
_validate_scope_mappings_DependenciesOnly(enabled_services, dependencies, scope_mappings) ==
    {[kind |-> "mapping", service |-> s, dep |-> ""] :
        s \in UNION {dependencies[e] : e \in enabled_services \cap DOMAIN dependencies}
                \ DOMAIN scope_mappings}

_validate_scope_mappings(enabled_services, dependencies, scope_mappings) ==
    {[kind |-> "mapping", service |-> s, dep |-> ""] :
        s \in RequiredServices(enabled_services, dependencies) \ DOMAIN scope_mappings}

\* Mutation: the checks go on after a missing key was found.
validate_configuration_NoEarlyReturn(cfg) ==
    LET missing == {[kind |-> "key", service |-> RequiredKeys[i], dep |-> ""] :
                        i \in {j \in 1..Len(RequiredKeys) : RequiredKeys[j] \notin cfg.keys}}
        enabled_services == get_enabled_services(cfg)
        dependencies == ConfigGet(cfg, "scope_dependencies")
        scope_mappings == ConfigGet(cfg, "scope_mappings")
        errors == missing
                    \cup _validate_dependencies(cfg, enabled_services, dependencies)
                    \cup _validate_scope_mappings(enabled_services, dependencies,
                                                  scope_mappings)
    IN  [ok |-> errors = {}, errors |-> errors]

validate_configuration(cfg) ==
    LET missing == {[kind |-> "key", service |-> RequiredKeys[i], dep |-> ""] :
                        i \in {j \in 1..Len(RequiredKeys) : RequiredKeys[j] \notin cfg.keys}}
        enabled_services == get_enabled_services(cfg)
        dependencies == ConfigGet(cfg, "scope_dependencies")
        scope_mappings == ConfigGet(cfg, "scope_mappings")
        errors == _validate_dependencies(cfg, enabled_services, dependencies)
                    \cup _validate_scope_mappings(enabled_services, dependencies,
                                                  scope_mappings)
    IN  IF missing # {}
        THEN [ok |-> FALSE, errors |-> missing]
        ELSE [ok |-> errors = {}, errors |-> errors]

\* ------------------------------------------------------- credentials
\* No credential: self.creds is None, config/token.pickle does not exist.
NoCreds ==
    [id |-> 0, ver |-> 0, kind |-> "none", token |-> FALSE, expiry |-> NoExpiry,
     refresh_token |-> FALSE, scopes |-> {}]

\* `if self.creds` / `if not self.creds`
HasCreds(c) == c.ver # 0

\* Scope sets a stored token may carry; {} stands for a scopes attribute that
\* is absent (None), which fails the code's truth test as an empty list does.
ScopeChoices == {{}, {"auth/calendar"}, {"auth/calendar", "auth/gmail.modify"}}

\* A token as the OAuth flow stores it.
UserToken(t, e, r, s) ==
    [id |-> 0, ver |-> 1, kind |-> "user", token |-> t, expiry |-> e,
     refresh_token |-> r, scopes |-> s]

\* What config/token.pickle may hold when the process starts: nothing; a user
\* token carrying both scopes, with or without access token and refresh token,
\* expired (0), inside the refresh buffer (300) or beyond it (3600); a complete
\* user token carrying another scope set; an unrefreshed service-account
\* credential.
StoredChoices ==
    {NoCreds}
    \cup {UserToken(t, e, r, {"auth/calendar", "auth/gmail.modify"}) :
            t \in BOOLEAN, e \in {0, 300, 3600}, r \in BOOLEAN}
    \cup {UserToken(TRUE, e, TRUE, s) : e \in {0, 300, 3600}, s \in ScopeChoices}
    \cup {[id |-> 0, ver |-> 1, kind |-> "service", token |-> FALSE,
           expiry |-> NoExpiry, refresh_token |-> FALSE,
           scopes |-> {"auth/calendar", "auth/gmail.modify"}]}

VARIABLES
    config,        \* ScopeManager.config, loaded once at construction
    stored,        \* the content of config/token.pickle (NoCreds: no file)
    creds,         \* GoogleAuthManager.creds
    refresh_lock,  \* holder of GoogleAuthManager.refresh_lock, 0 when free
    waiters,       \* callers suspended in refresh_lock.acquire(), in order
    now,           \* the clock, in seconds
    stamp,         \* last object id / token version handed out
    ncalls,        \* calls started so far
    authFailed,    \* some full authorization attempt has failed
    pc,            \* where each caller is in its call
    call,          \* the locals and the history of each caller's current call
    result,        \* what each caller's last finished call returned or raised
    received,      \* version of the credential each caller was last handed
    built,         \* the tools whose API client (self.service) has been built
    saveFailed,    \* some write of config/token.pickle has failed
    query          \* the last ScopeManager operation, its input and its answer

vars == <<config, stored, creds, refresh_lock, waiters, now, stamp, ncalls,
          authFailed, pc, call, result, received, built, saveFailed, query>>

\* Credentials.expired and Credentials.valid of the google.oauth2 library, as
\* the code reads them.
\* Mutation: the instant of expiry itself does not count as expired.
Expired_After(c) == c.expiry # NoExpiry /\ now > c.expiry

Expired(c) == c.expiry # NoExpiry /\ now >= c.expiry

\* Mutation: validity judged by the expiry alone.
Valid_Unexpired(c) == ~Expired(c)

\* Mutation: a credential inside the refresh buffer counts as not valid.
Valid_BeyondBuffer(c) ==
    c.token /\ ~Expired(c)
        /\ (c.expiry = NoExpiry \/ c.expiry - now > TOKEN_REFRESH_BUFFER)

Valid(c) == c.token /\ ~Expired(c)

TimeUntilExpiry(c) == c.expiry - now

\* Mutation: the boundary is left out.
should_refresh_token_Strict(c) ==
    IF ~HasCreds(c) \/ c.expiry = NoExpiry
    THEN FALSE
    ELSE TimeUntilExpiry(c) < TOKEN_REFRESH_BUFFER

\* Mutation: the buffer taken as minutes.
should_refresh_token_Minutes(c) ==
    IF ~HasCreds(c) \/ c.expiry = NoExpiry
    THEN FALSE
    ELSE TimeUntilExpiry(c) <= TOKEN_REFRESH_BUFFER * 60

should_refresh_token(c) ==
    IF ~HasCreds(c) \/ c.expiry = NoExpiry
    THEN FALSE
    ELSE TimeUntilExpiry(c) <= TOKEN_REFRESH_BUFFER

\* pickle.dump / pickle.load: every attribute survives, the loaded object is
\* a new one.
Pickled(c) == [c EXCEPT !.id = 0]
\* Mutation: the loaded credential comes back without its scopes.
Unpickled_NoScopes(s, newid) == [s EXCEPT !.id = newid, !.scopes = {}]

Unpickled(s, newid) == [s EXCEPT !.id = newid]

\* creds.refresh(Request()) succeeding: the same object gets a new token and
\* the expiry the token endpoint grants.
Refreshed(c, lifetime, v) ==
    [c EXCEPT !.ver = v, !.token = TRUE, !.expiry = now + lifetime]

\* Token lifetimes the endpoint may grant: the usual hour, or one that is
\* already inside the refresh buffer.
Lifetimes == {3600, 600}

\* flow.run_local_server(port=0) succeeding
OAuthCredentials(v, required_scopes) ==
    [id |-> v, ver |-> v, kind |-> "user", token |-> TRUE, expiry |-> now + 3600,
     refresh_token |-> TRUE, scopes |-> required_scopes]

\* service_account.Credentials.from_service_account_file: no token yet
ServiceAccountCredentials(v) ==
    [id |-> v, ver |-> v, kind |-> "service", token |-> FALSE, expiry |-> NoExpiry,
     refresh_token |-> FALSE, scopes |-> RequiredScopeSet(config)]

\* ------------------------------------------------------ per-call data
NoSeen ==
    [id |-> 0, ver |-> 0, ttl |-> NoExpiry, valid |-> FALSE, due |-> FALSE,
     scoped |-> FALSE, drift |-> FALSE]

\* What a call found when it looked at the credential: ttl is the time until
\* expiry, valid the credential's validity flag at that moment, due what
\* should_refresh_token() answered, scoped says that the scopes attribute is
\* populated, drift that the granted scopes are not the required ones.
Seen(c) ==
    [id |-> c.id, ver |-> c.ver,
     ttl |-> IF c.expiry = NoExpiry THEN NoExpiry ELSE TimeUntilExpiry(c),
     valid |-> c.token /\ ~(c.expiry # NoExpiry /\ now >= c.expiry),
     due |-> should_refresh_token(c),
     scoped |-> c.scopes # {},
     drift |-> c.scopes # RequiredScopeSet(config)]

\* seq numbers the calls in the order they are made; refreshes, auths and saves
\* count the call's creds.refresh(), _authenticate() and pickle.dump(); issued is
\* the version of the credential the call's own exchange produced; requested
\* is required_scopes of _authenticate; checked says that the call went through
\* ensure_valid_credentials; prev is the version the caller was handed before;
\* refresh_error is the exception creds.refresh() raised in the call, if any.
NewCall(kind, waited) ==
    [kind |-> kind, seq |-> ncalls + 1, target |-> 0, refreshes |-> 0, auths |-> 0,
     saves |-> 0, waited |-> waited, seen |-> NoSeen, issued |-> 0,
     requested |-> {}, checked |-> kind = "ensure", prev |-> 0,
     refresh_error |-> ""]

\* No ScopeManager operation has been observed.  `raised` is the exception an
\* operation ended with, "" when it returned: _load_config catches every
\* exception, and get_required_scopes, has_scope_changes and
\* validate_configuration hold no raise statement.
NoQuery ==
    [op |-> "none", raised |-> "", file |-> [exists |-> FALSE, valid_json |-> FALSE,
                              json |-> DefaultConfig],
     arg |-> << >>, scopes |-> << >>, flag |-> FALSE, errors |-> {},
     before |-> DefaultConfig, repeated |-> FALSE, prev |-> << >>]

NoResult == [status |-> "none", error |-> "", cred |-> NoCreds, at |-> 0]

Init ==
    /\ config \in Configs
    /\ stored \in StoredChoices
    /\ creds = NoCreds
    /\ refresh_lock = 0
    /\ waiters = << >>
    /\ now = 0
    /\ stamp = 1
    /\ ncalls = 0
    /\ authFailed = FALSE
    /\ pc = [p \in Callers |-> "idle"]
    /\ call = [p \in Callers |-> [NewCall("none", FALSE) EXCEPT !.seq = 0]]
    /\ result = [p \in Callers |-> NoResult]
    /\ received = [p \in Callers |-> 0]
    /\ built = {}
    /\ saveFailed = FALSE
    /\ query = NoQuery

\* ------------------------------------------------ how a call finishes
\* `return self.creds` of ensure_valid_credentials, read after the lock block.
ReturnedCredential(c) == c

\* Mutation: the lock stays with the caller that leaves the block.
Released_Kept(p) == refresh_lock

\* `async with self.refresh_lock` leaves the block: by return or by exception.
Released(p) == IF refresh_lock = p THEN 0 ELSE refresh_lock

\* The call of p returns: ensure_valid_credentials the credential c it reads
\* from self.creds, initialize nothing; a tool call ends having used c.
Returns(p, kind, c) ==
    /\ pc' = [pc EXCEPT ![p] = "done"]
    /\ result' = [result EXCEPT ![p] =
            [status |-> "ok", error |-> "",
             cred |-> IF kind = "initialize" THEN NoCreds ELSE ReturnedCredential(c),
             at |-> now]]
    /\ received' = IF kind = "ensure"
                   THEN [received EXCEPT ![p] = ReturnedCredential(c).ver]
                   ELSE received
    /\ saveFailed' = saveFailed
    /\ refresh_lock' = Released(p)

\* The call of p goes on: it has no result yet.
Pending(p) ==
    /\ result' = [result EXCEPT ![p] = NoResult]
    /\ UNCHANGED <<received, saveFailed>>

\* The call of p raises.
Raises(p, error) ==
    /\ pc' = [pc EXCEPT ![p] = "done"]
    /\ result' = [result EXCEPT ![p] =
            [status |-> "error", error |-> error, cred |-> NoCreds, at |-> now]]
    /\ received' = received
    /\ saveFailed' = (saveFailed \/ error = "OSError")
    /\ refresh_lock' = Released(p)

\* Mutation: the credential is not written.
save_credentials_Skipped(old, c) == old

\* What config/token.pickle holds after save_credentials() wrote credential c.
save_credentials(old, c) == IF HasCreds(c) THEN Pickled(c) ELSE old

\* save_credentials() and then the end of the call.  Nothing is written
\* without a credential; a write that fails (written = FALSE) raises OSError
\* out of the call, the new credential staying in memory.
SaveAndReturn(p, ca, newc, written) ==
    /\ creds' = newc
    /\ IF ~HasCreds(newc)
       THEN /\ stored' = stored
            /\ call' = [call EXCEPT ![p] = ca]
            /\ Returns(p, ca.kind, newc)
       ELSE IF written
       THEN /\ stored' = save_credentials(stored, newc)
            /\ call' = [call EXCEPT ![p] = [ca EXCEPT !.saves = @ + 1]]
            /\ Returns(p, ca.kind, newc)
       ELSE /\ stored' = stored
            /\ call' = [call EXCEPT ![p] = ca]
            /\ Raises(p, "OSError")

\* Mutation: self.creds is left cleared.
AssignCreds_Cleared(old, new) == NoCreds

\* Mutation: the new credential is bound to a local, self.creds keeps the old.
AssignCreds_Local(old, new) == old

\* `self.creds = ...` of _authenticate: the newly issued credential replaces
\* the one in memory.
AssignCreds(old, new) == new

\* What _authenticate finds at credentials_path.
CredentialFiles == {"missing", "service_account", "oauth_client"}

\* _authenticate() is entered by the call of p, whose credential is c and whose
\* record is ca; st is the last stamp used.  A missing file raises at once, a
\* service-account key builds its credential locally, an OAuth client file
\* starts the interactive flow, which stays in flight.
Authenticate(p, ca, c, st, file, written) ==
    LET cb == [ca EXCEPT !.auths = @ + 1, !.requested = RequiredScopeSet(config)]
    IN  CASE file = "missing" ->
                /\ creds' = c
                /\ stored' = stored
                /\ stamp' = st
                /\ authFailed' = TRUE
                /\ call' = [call EXCEPT ![p] = cb]
                /\ Raises(p, "FileNotFoundError")
          [] file = "service_account" ->
                /\ stamp' = st + 1
                /\ authFailed' = authFailed
                /\ SaveAndReturn(p, [cb EXCEPT !.issued = st + 1],
                                 AssignCreds(c, ServiceAccountCredentials(st + 1)),
                                 written)
          [] file = "oauth_client" ->
                /\ creds' = c
                /\ stored' = stored
                /\ stamp' = st
                /\ authFailed' = authFailed
                /\ call' = [call EXCEPT ![p] = cb]
                /\ pc' = [pc EXCEPT ![p] = "authenticating"]
                /\ Pending(p)
                /\ UNCHANGED refresh_lock

\* refresh_token() is entered with credential c: creds.refresh(Request()) is
\* called on that object and stays in flight.  Without a credential the
\* attribute access raises AttributeError, which is no RefreshError.
StartRefresh(p, ca, c, st, holder) ==
    /\ creds' = c
    /\ stored' = stored
    /\ stamp' = st
    /\ authFailed' = authFailed
    /\ IF HasCreds(c)
       THEN /\ call' = [call EXCEPT ![p] =
                    [ca EXCEPT !.target = c.id, !.refreshes = @ + 1]]
            /\ pc' = [pc EXCEPT ![p] = "refreshing"]
            /\ refresh_lock' = holder
            /\ Pending(p)
       ELSE /\ call' = [call EXCEPT ![p] = ca]
            /\ Raises(p, "AttributeError")

\* -------------------------------------------------------- initialize
\* Mutation: every tool call initializes.
NeedsInitialize_Always == TRUE

\* handle_call_tool initializes when no credential is in memory.
NeedsInitialize == ~HasCreds(creds)

\* initialize(), up to its first token exchange.
InitializeCall(p) ==
    /\ pc[p] \in {"idle", "done"}
    /\ ncalls < MaxCalls
    /\ NeedsInitialize
    /\ ncalls' = ncalls + 1
    /\ UNCHANGED <<query, built, config, waiters, now>>
    /\ LET ca0 == NewCall("initialize", FALSE)
       IN  IF ~validate_configuration(config).ok
           THEN /\ call' = [call EXCEPT ![p] = ca0]
                /\ Raises(p, "RuntimeError")
                /\ UNCHANGED <<stored, creds, stamp, authFailed>>
           ELSE
           LET exists == HasCreds(stored)
               st == IF exists THEN stamp + 1 ELSE stamp
               loaded == IF exists THEN Unpickled(stored, st) ELSE creds
               checked == HasCreds(loaded) /\ exists /\ loaded.scopes # {}
               needs_reauth == checked /\ has_scope_changes(config, ListOf(loaded.scopes))
               c == IF needs_reauth THEN NoCreds ELSE loaded
               ca == [ca0 EXCEPT !.seen = IF exists THEN Seen(loaded) ELSE NoSeen]
           IN  IF ~HasCreds(c) \/ ~Valid(c) \/ needs_reauth
               THEN IF HasCreds(c) /\ Expired(c) /\ c.refresh_token /\ ~needs_reauth
                    THEN StartRefresh(p, ca, c, st, refresh_lock)
                    ELSE \E file \in CredentialFiles, written \in BOOLEAN :
                            Authenticate(p, ca, c, st, file, written)
               ELSE /\ creds' = c
                    /\ stamp' = st
                    /\ call' = [call EXCEPT ![p] = ca]
                    /\ Returns(p, "initialize", c)
                    /\ UNCHANGED <<stored, authFailed>>

\* ------------------------------------------- ensure_valid_credentials
\* Mutation: the lock block is entered without regard to the lock.
CanAcquire_Unguarded == TRUE

\* asyncio.Lock.acquire returns at once when the lock is free and nobody waits.
CanAcquire == refresh_lock = 0 /\ waiters = << >>

\* The body of `async with self.refresh_lock`, entered by p.
EnterLocked(p, ca0) ==
    LET ca == [ca0 EXCEPT !.seen = Seen(creds)]
    IN  IF should_refresh_token(creds) \/ ~HasCreds(creds) \/ ~Valid(creds)
        THEN StartRefresh(p, ca, creds, stamp, p)
        ELSE /\ call' = [call EXCEPT ![p] = ca]
             /\ Returns(p, "ensure", creds)
             /\ UNCHANGED <<stored, creds, stamp, authFailed>>

\* ensure_valid_credentials() is called: the caller enters the lock block, or
\* suspends in acquire().
EnsureCall(p) ==
    /\ pc[p] \in {"idle", "done"}
    /\ ncalls < MaxCalls
    /\ ncalls' = ncalls + 1
    /\ UNCHANGED <<query, built, config, now>>
    /\ IF CanAcquire
       THEN /\ EnterLocked(p, [NewCall("ensure", FALSE) EXCEPT !.prev = received[p]])
            /\ UNCHANGED waiters
       ELSE /\ pc' = [pc EXCEPT ![p] = "waiting"]
            /\ waiters' = Append(waiters, p)
            /\ call' = [call EXCEPT ![p] =
                            [NewCall("ensure", TRUE) EXCEPT !.prev = received[p]]]
            /\ Pending(p)
            /\ UNCHANGED <<stored, creds, refresh_lock, stamp, authFailed>>

\* The lock was released and p is the first waiter: it takes the lock and looks
\* at the credential as it is now.
EnsureWake(p) ==
    /\ pc[p] = "waiting"
    /\ refresh_lock = 0
    /\ waiters # << >>
    /\ Head(waiters) = p
    /\ waiters' = Tail(waiters)
    /\ EnterLocked(p, call[p])
    /\ UNCHANGED <<query, built, config, now, ncalls>>

\* ------------------------------------------- the exchanges complete
\* The object p's refresh works on is still the one in self.creds.
TargetIsCurrent(p) == HasCreds(creds) /\ creds.id = call[p].target

\* A user credential without refresh token cannot be refreshed: the library
\* raises RefreshError.
CanRefresh(p) ==
    ~TargetIsCurrent(p) \/ creds.kind = "service" \/ creds.refresh_token

\* creds.refresh() returns; save_credentials(); the call ends.
RefreshSucceeds(p) ==
    /\ pc[p] = "refreshing"
    /\ CanRefresh(p)
    /\ \E lifetime \in Lifetimes, written \in BOOLEAN :
        IF TargetIsCurrent(p)
        THEN /\ stamp' = stamp + 1
             /\ SaveAndReturn(p, [call[p] EXCEPT !.issued = stamp + 1],
                              Refreshed(creds, lifetime, stamp + 1), written)
        ELSE /\ stamp' = stamp
             /\ SaveAndReturn(p, call[p], creds, written)
    /\ UNCHANGED <<query, built, config, waiters, now, ncalls, authFailed>>

\* creds.refresh() raises RefreshError: refresh_token() falls back to
\* _authenticate().
RefreshRejected(p) ==
    /\ pc[p] = "refreshing"
    /\ \E file \in CredentialFiles, written \in BOOLEAN :
        Authenticate(p, [call[p] EXCEPT !.refresh_error = "RefreshError"],
                     creds, stamp, file, written)
    /\ UNCHANGED <<query, built, config, waiters, now, ncalls>>

\* Mutation: any exception of the refresh starts the full authorization.
OnRefreshException_Reauth(p) ==
    /\ pc' = [pc EXCEPT ![p] = "authenticating"]
    /\ call' = [call EXCEPT ![p] =
            [@ EXCEPT !.refresh_error = "TransportError", !.auths = @ + 1,
                      !.requested = RequiredScopeSet(config)]]
    /\ UNCHANGED <<result, received, saveFailed, refresh_lock>>

\* Mutation: the failed refresh is tried again within the same call.
OnRefreshException_Retry(p) ==
    /\ call' = [call EXCEPT ![p].refreshes = @ + 1]
    /\ UNCHANGED <<pc, result, received, saveFailed, refresh_lock>>

\* An exception of creds.refresh() that `except RefreshError` does not catch
\* leaves refresh_token() and the caller's lock block.
OnRefreshException(p) ==
    /\ Raises(p, "TransportError")
    /\ call' = [call EXCEPT ![p].refresh_error = "TransportError"]

\* creds.refresh() raises something else (a transport error): it propagates.
RefreshFails(p) ==
    /\ pc[p] = "refreshing"
    /\ CanRefresh(p)
    /\ OnRefreshException(p)
    /\ UNCHANGED <<query, built, config, stored, creds, waiters, now, stamp, ncalls, authFailed>>

\* flow.run_local_server() returns the new credential; save_credentials().
AuthGranted(p) ==
    /\ pc[p] = "authenticating"
    /\ stamp' = stamp + 1
    /\ \E written \in BOOLEAN :
        SaveAndReturn(p, [call[p] EXCEPT !.issued = stamp + 1],
                      AssignCreds(creds, OAuthCredentials(stamp + 1, call[p].requested)),
                      written)
    /\ UNCHANGED <<query, built, config, waiters, now, ncalls, authFailed>>

\* Mutation: the failed flow leaves the manager without a credential.
OnAuthException_Cleared(p) ==
    /\ Raises(p, "AuthorizationError")
    /\ creds' = NoCreds
    /\ UNCHANGED <<stored, call>>

\* flow.run_local_server() raises before anything is assigned to self.creds;
\* the exception leaves _authenticate(), refresh_token() or initialize(), and
\* the caller's lock block, and save_credentials() is not reached.
OnAuthException(p) ==
    /\ Raises(p, "AuthorizationError")
    /\ UNCHANGED <<stored, creds, call>>

\* The user declines, or the flow fails: the exception propagates.
AuthDeclined(p) ==
    /\ pc[p] = "authenticating"
    /\ authFailed' = TRUE
    /\ OnAuthException(p)
    /\ UNCHANGED <<query, built, config, waiters, now, stamp, ncalls>>

\* ------------------------------------------------------- tool calls
\* The tools of the model: GoogleCalendarTools and GmailTools.
Tools == {"calendar", "gmail"}

\* Mutation: a credential that is not valid is refused like a missing one.
get_credentials_ValidOnly(c) ==
    IF ~HasCreds(c) \/ ~Valid(c)
    THEN [raised |-> "RuntimeError", value |-> NoCreds]
    ELSE [raised |-> "", value |-> c]

\* get_credentials(): RuntimeError("Authentication not initialized") without
\* a credential in memory, else that credential.
get_credentials(c) ==
    IF ~HasCreds(c)
    THEN [raised |-> "RuntimeError", value |-> NoCreds]
    ELSE [raised |-> "", value |-> c]

\* handle_call_tool from the enabled-service check on, for an invocation that
\* finds a credential in memory: a disabled service ends it with ValueError;
\* the first use of a tool takes get_credentials() and builds the API client
\* with it, later uses go through the client that was built.
ToolCall(p) ==
    /\ pc[p] \in {"idle", "done"}
    /\ ncalls < MaxCalls
    /\ ~NeedsInitialize
    /\ ncalls' = ncalls + 1
    /\ UNCHANGED <<query, config, stored, creds, waiters, now, stamp, authFailed>>
    /\ \E tool \in Tools :
        LET ca0 == NewCall("tool", FALSE)
        IN  IF tool \notin get_enabled_services(config)
            THEN /\ call' = [call EXCEPT ![p] = ca0]
                 /\ Raises(p, "ValueError")
                 /\ UNCHANGED built
            ELSE IF tool \in built
            THEN /\ call' = [call EXCEPT ![p] = ca0]
                 /\ Returns(p, "tool", NoCreds)
                 /\ UNCHANGED built
            ELSE /\ call' = [call EXCEPT ![p] = [ca0 EXCEPT !.seen = Seen(creds)]]
                 /\ Returns(p, "tool", get_credentials(creds).value)
                 /\ built' = built \cup {tool}

\* auth_manager.get_credentials() called in whatever state the manager is.
GetCredentialsCall(p) ==
    /\ pc[p] \in {"idle", "done"}
    /\ ncalls < MaxCalls
    /\ ncalls' = ncalls + 1
    /\ call' = [call EXCEPT ![p] = NewCall("get_credentials", FALSE)]
    /\ LET got == get_credentials(creds)
       IN  IF got.raised # ""
           THEN Raises(p, got.raised)
           ELSE Returns(p, "get_credentials", got.value)
    /\ UNCHANGED <<query, built, config, stored, creds, waiters, now, stamp, authFailed>>

\* handle_call_tool("get_mcp_configuration"): the summary of the scope
\* configuration is returned before the handler looks at the credential.
ConfigToolCall(p) ==
    /\ pc[p] \in {"idle", "done"}
    /\ ncalls < MaxCalls
    /\ ncalls' = ncalls + 1
    /\ call' = [call EXCEPT ![p] = NewCall("get_mcp_configuration", FALSE)]
    /\ Returns(p, "get_mcp_configuration", NoCreds)
    /\ UNCHANGED <<query, built, config, stored, creds, waiters, now, stamp, authFailed>>

\* ------------------------------------------------------ save_config
\* ScopeManager.save_config(cfg): the file is written and self.config becomes
\* cfg, unvalidated; a failed write leaves self.config as it was.
SaveConfig ==
    /\ ncalls < MaxCalls
    /\ ncalls' = ncalls + 1
    /\ \E cfg \in Configs \ {config}, written \in BOOLEAN :
        config' = IF written THEN cfg ELSE config
    /\ UNCHANGED <<stored, creds, refresh_lock, waiters, now, stamp, authFailed,
                   pc, call, result, received, built, saveFailed, query>>

\* Time passes.
Tick ==
    /\ now < MaxTicks * 300
    /\ now' = now + 300
    /\ UNCHANGED <<config, stored, creds, refresh_lock, waiters, stamp, ncalls,
                   authFailed, pc, call, result, received, built, saveFailed, query>>

Next ==
    \/ \E p \in Callers : InitializeCall(p)
    \/ \E p \in Callers : EnsureCall(p)
    \/ \E p \in Callers : EnsureWake(p)
    \/ \E p \in Callers : RefreshSucceeds(p)
    \/ \E p \in Callers : RefreshRejected(p)
    \/ \E p \in Callers : RefreshFails(p)
    \/ \E p \in Callers : AuthGranted(p)
    \/ \E p \in Callers : AuthDeclined(p)
    \/ \E p \in Callers : ToolCall(p)
    \/ \E p \in Callers : GetCredentialsCall(p)
    \/ \E p \in Callers : ConfigToolCall(p)
    \/ SaveConfig
    \/ Tick

Spec == Init /\ [][Next]_vars

\* The event loop resumes a caller suspended in refresh_lock.acquire() once the
\* lock is free.  Nothing makes the token endpoint or the user answer: the
\* code passes no timeout to creds.refresh() or to flow.run_local_server().
FairSpec == Spec /\ \A p \in Callers : WF_vars(EnsureWake(p))

\* ------------------------------------------- ScopeManager on its own
\* The ScopeManager operations applied to every configuration of ScopeConfigs
\* and to the configurations a constructor call loads; the authentication
\* manager is left in its initial state.
AuthVars == <<stored, creds, refresh_lock, waiters, now, stamp, ncalls,
              authFailed, pc, call, result, received, built, saveFailed>>

\* The lists of scopes a caller may hand to has_scope_changes.
ScopeIds == {DefaultMappings[s] : s \in ScopeServices}
ScopeLists == UNION {[1..n -> ScopeIds] : n \in 0..MaxScopeListLen}

ScopeInit ==
    /\ config \in ScopeConfigs
    /\ stored = NoCreds
    /\ creds = NoCreds
    /\ refresh_lock = 0
    /\ waiters = << >>
    /\ now = 0
    /\ stamp = 1
    /\ ncalls = 0
    /\ authFailed = FALSE
    /\ pc = [p \in Callers |-> "idle"]
    /\ call = [p \in Callers |-> [NewCall("none", FALSE) EXCEPT !.seq = 0]]
    /\ result = [p \in Callers |-> NoResult]
    /\ received = [p \in Callers |-> 0]
    /\ built = {}
    /\ saveFailed = FALSE
    /\ query = NoQuery

\* ScopeManager(config_path): self.config = self._load_config()
LoadConfig ==
    /\ \E file \in ConfigFiles :
        /\ config' = _load_config(file)
        /\ query' = [NoQuery EXCEPT !.op = "_load_config", !.file = file,
                                    !.before = config]
    /\ UNCHANGED AuthVars

\* Mutation: the required services are written back as enabled.
ConfigAfterRequiredScopes_WrittenBack(cfg) ==
    [cfg EXCEPT !.enabled_services =
        [s \in RequiredServices(get_enabled_services(cfg),
                                ConfigGet(cfg, "scope_dependencies")) |-> TRUE]]

\* self.config after get_required_scopes: the method works on a copy of the
\* enabled set and assigns nothing to self.
ConfigAfterRequiredScopes(cfg) == cfg

GetRequiredScopes ==
    /\ query' = [NoQuery EXCEPT !.op = "get_required_scopes",
                                !.scopes = get_required_scopes(config),
                                !.before = config,
                                !.repeated = (query.op = "get_required_scopes"),
                                !.prev = query.scopes]
    /\ config' = ConfigAfterRequiredScopes(config)
    /\ UNCHANGED AuthVars

HasScopeChanges ==
    /\ \E current_scopes \in ScopeLists :
        query' = [NoQuery EXCEPT !.op = "has_scope_changes",
                                !.arg = current_scopes,
                                !.flag = has_scope_changes(config, current_scopes),
                                !.before = config]
    /\ UNCHANGED config
    /\ UNCHANGED AuthVars

ValidateConfiguration ==
    /\ LET v == validate_configuration(config)
       IN  query' = [NoQuery EXCEPT !.op = "validate_configuration",
                                   !.flag = v.ok, !.errors = v.errors,
                                   !.before = config]
    /\ UNCHANGED config
    /\ UNCHANGED AuthVars

ScopeNext ==
    \/ LoadConfig
    \/ GetRequiredScopes
    \/ HasScopeChanges
    \/ ValidateConfiguration

ScopeSpec == ScopeInit /\ [][ScopeNext]_vars

\* =============================================================== claims
\* Shorthands over a caller's current (or last) call.
IsEnsure(p) == call[p].kind = "ensure"
IsInitialize(p) == call[p].kind = "initialize"
IsTool(p) == call[p].kind = "tool"
InFlight(p) == pc[p] \in {"refreshing", "authenticating"}
ReturnedOk(p) == pc[p] = "done" /\ result[p].status = "ok"
\* The call has looked at the credential inside the lock block.
Looked(p) == IsEnsure(p) /\ pc[p] \in {"refreshing", "authenticating", "done"}

\* Credentials.valid of credential c at time t.
ValidAt(c, t) == c.token /\ ~(c.expiry # NoExpiry /\ t >= c.expiry)
BeyondBufferAt(c, t) == c.expiry = NoExpiry \/ c.expiry - t > TOKEN_REFRESH_BUFFER

\* C1: among the callers of ensure_valid_credentials at most one has a refresh
\* or a full authorization in flight at any moment; it holds refresh_lock, and
\* every other caller that has arrived and not finished is suspended on the
\* lock.
C1_AtMostOneInFlight ==
    \A p \in Callers :
        IsEnsure(p) /\ InFlight(p) =>
            /\ refresh_lock = p
            /\ \A q \in Callers \ {p} :
                  IsEnsure(q) /\ pc[q] # "done" => pc[q] = "waiting"

C1_Witness ==
    \E p, q \in Callers :
        /\ IsEnsure(p) /\ InFlight(p)
        /\ IsEnsure(q) /\ pc[q] = "waiting"

\* C2: a call that found a valid credential 300 s from expiry and refreshed
\* it to one beyond the 600 s buffer is the only call that refreshes: every
\* other ensure_valid_credentials call that looked at that credential or at
\* the refreshed one (and did not itself fail) made no refresh call.
C2_Refresher(p) ==
    /\ IsEnsure(p) /\ ReturnedOk(p)
    /\ call[p].seen.valid /\ call[p].seen.ttl = 300
    /\ call[p].refreshes = 1 /\ call[p].auths = 0
    /\ creds.ver = call[p].issued
    /\ creds.token /\ creds.expiry - now > TOKEN_REFRESH_BUFFER

C2_ExactlyOneRefresh ==
    \A p \in Callers :
        C2_Refresher(p) =>
            \A q \in Callers \ {p} :
                /\ Looked(q)
                /\ call[q].seen.ver >= call[p].seen.ver
                /\ result[q].status # "error"
                => call[q].refreshes = 0

C2_Witness ==
    \E p, q \in Callers :
        /\ p # q
        /\ C2_Refresher(p)
        /\ IsEnsure(q) /\ ReturnedOk(q) /\ call[q].waited
        /\ call[q].seen.ver = call[p].issued
        /\ call[q].refreshes = 0

\* C3: when the refresh in an ensure_valid_credentials call failed with
\* RefreshError and the full authorization that followed succeeded, that call
\* returns the newly authorized credential, and so does every
\* ensure_valid_credentials call made after it (among them the callers that
\* waited on the lock): none returns the object whose refresh failed.
C3_Reauthorized(p) ==
    /\ IsEnsure(p) /\ ReturnedOk(p)
    /\ call[p].refreshes = 1 /\ call[p].auths = 1

C4_ReturnsUsableCredential ==
    \A p \in Callers :
        IsEnsure(p) /\ ReturnedOk(p) =>
            /\ HasCreds(result[p].cred)
            /\ ValidAt(result[p].cred, result[p].at)
            /\ BeyondBufferAt(result[p].cred, result[p].at)

\* C5: every credential ensure_valid_credentials returns carries exactly the
\* scopes get_required_scopes() gives for the configuration.
C5_ReturnedScopesMatch ==
    \A p \in Callers :
        IsEnsure(p) /\ ReturnedOk(p) =>
            result[p].cred.scopes = RequiredScopeSet(config)

\* C6: an ensure_valid_credentials call that finds a valid credential whose
\* granted scopes differ from the required ones performs a full authorization.
C6_DriftForcesReauth ==
    \A p \in Callers :
        /\ IsEnsure(p) /\ pc[p] = "done"
        /\ call[p].seen.ver # 0 /\ call[p].seen.valid /\ call[p].seen.drift
        => call[p].auths = 1

\* C7: an initialize() call that loaded a stored credential on which
\* has_scope_changes is true (its scopes are populated and are not the
\* required ones), whether that token was valid, near expiry or expired and
\* refreshable, entered the full authorization exactly once and the refresh
\* never; once it is over the loaded object is not the credential in memory,
\* and a call that returned has written the new credential once.
C7_Drifted(p) ==
    /\ IsInitialize(p) /\ pc[p] \in {"authenticating", "done"}
    /\ call[p].seen.ver # 0 /\ call[p].seen.scoped /\ call[p].seen.drift

C7_DriftReauthOnce ==
    \A p \in Callers :
        C7_Drifted(p) =>
            /\ call[p].refreshes = 0
            /\ call[p].auths = 1
            /\ ~(HasCreds(creds) /\ creds.id = call[p].seen.id)
            /\ ReturnedOk(p) => call[p].saves = 1 /\ call[p].issued # 0

C7_Witness ==
    \E p \in Callers :
        /\ C7_Drifted(p) /\ ReturnedOk(p)
        /\ call[p].seen.valid
        /\ call[p].auths = 1 /\ call[p].saves = 1
        /\ HasCreds(creds) /\ creds.ver = call[p].issued

\* C8: after an initialize() call that loaded a stored credential whose
\* granted scopes differ from the required ones (a subset, the empty set
\* included, or a superset), the loaded object is not the credential in use.
C8_DriftNeverKept ==
    \A p \in Callers :
        /\ IsInitialize(p) /\ pc[p] = "done"
        /\ call[p].seen.ver # 0 /\ call[p].seen.drift
        => ~(HasCreds(creds) /\ creds.id = call[p].seen.id)

\* C9: once a full authorization attempt has failed, no ensure_valid_credentials
\* call made afterwards starts a refresh or an authorization.
C9_StaysUnrecoverable ==
    [][authFailed =>
        \A p \in Callers :
            pc[p] \in {"idle", "done"} /\ call'[p].kind = "ensure"
                => pc'[p] \notin {"refreshing", "authenticating"}]_vars

\* C10: one ensure_valid_credentials call makes at most one refresh attempt and
\* at most one full authorization attempt (the latter only after its refresh);
\* once it has made an attempt it is in that attempt, in the authorization
\* that follows a rejected refresh, or finished, never waiting or refreshing
\* again; and a call whose authorization issued no credential has ended by
\* raising the error to its caller.
C10_NoRetryLoop ==
    \A p \in Callers :
        IsEnsure(p) =>
            /\ call[p].refreshes <= 1
            /\ call[p].auths <= call[p].refreshes
            /\ call[p].refreshes = 1 =>
                  pc[p] \in {"refreshing", "authenticating", "done"}
            /\ call[p].auths = 1 => pc[p] \in {"authenticating", "done"}
            /\ pc[p] = "done" /\ call[p].auths = 1 /\ call[p].issued = 0
                  => result[p].status = "error"

C10_Witness ==
    \E p \in Callers :
        /\ IsEnsure(p) /\ pc[p] = "done"
        /\ call[p].refreshes = 1 /\ call[p].auths = 1
        /\ result[p].status = "error"
        /\ result[p].error \in {"FileNotFoundError", "AuthorizationError"}

\* C11: every ensure_valid_credentials call that has started ends, by return or
\* by exception, whether or not the token endpoint or the user ever answers.
C11_EveryCallEnds ==
    \A p \in Callers :
        (IsEnsure(p) /\ pc[p] # "done") ~> (pc[p] = "done")

\* C12: the credential an ensure_valid_credentials call returns to a caller is
\* never of an older version than the one the same caller was handed by its
\* previous call, nor than the one the call found in memory.
C12_NeverOlder ==
    \A p \in Callers :
        IsEnsure(p) /\ ReturnedOk(p) =>
            /\ result[p].cred.ver >= call[p].prev
            /\ result[p].cred.ver >= call[p].seen.ver
            /\ received[p] = result[p].cred.ver

C12_Witness ==
    \E p \in Callers :
        /\ IsEnsure(p) /\ ReturnedOk(p)
        /\ call[p].prev # 0 /\ result[p].cred.ver > call[p].prev
        /\ call[p].seen.ver = call[p].prev

\* C13: a tool invocation that took the credential from the manager and went
\* to the API with it had called ensure_valid_credentials in that invocation.
C13_ToolsEnsureFirst ==
    \A p \in Callers :
        IsTool(p) /\ ReturnedOk(p) /\ HasCreds(result[p].cred) => call[p].checked

\* C14: no step in which a call makes a refresh or a full authorization
\* attempt is taken while validate_configuration() is not ok.
C14_ValidationPrecedesExchange ==
    [][\A p \in Callers :
        (IF call'[p].seq = call[p].seq
         THEN call'[p].refreshes + call'[p].auths > call[p].refreshes + call[p].auths
         ELSE call'[p].refreshes + call'[p].auths > 0)
        => validate_configuration(config).ok]_vars

\* C15: a call whose refresh or authorization obtained a new credential ends
\* successfully, also when writing config/token.pickle failed.
C15_SaveFailureTolerated ==
    \A p \in Callers :
        pc[p] = "done" /\ call[p].issued # 0 => result[p].status = "ok"

\* C16: a call that returns after its refresh or authorization obtained a new
\* credential has written config/token.pickle exactly once, and no call writes
\* more than once; so whenever no call is in progress, no write has failed and
\* a credential is in memory, the file holds exactly that credential.
Quiescent == \A p \in Callers : pc[p] \in {"idle", "done"}

C17_FirstCallAuthenticates ==
    \A p \in Callers :
        IsEnsure(p) /\ pc[p] = "done" /\ call[p].seen.ver = 0 =>
            /\ call[p].auths = 1
            /\ \/ /\ result[p].status = "ok"
                  /\ call[p].issued # 0
                  /\ result[p].cred.ver = call[p].issued
               \/ /\ result[p].status = "error"
                  /\ result[p].error \in {"FileNotFoundError", "AuthorizationError"}

\* C18: should_refresh_token() is true exactly when there is a credential, it
\* has an expiry, and the expiry is at most 600 seconds away (600 itself and
\* an expiry already passed included): for the credential in memory now, and
\* for the answer every ensure_valid_credentials call got when it looked.
C18_RefreshDue ==
    /\ should_refresh_token(creds) <=>
          HasCreds(creds) /\ creds.expiry # NoExpiry /\ creds.expiry - now <= 600
    /\ \A p \in Callers :
          Looked(p) =>
              (call[p].seen.due <=>
                  /\ call[p].seen.ver # 0
                  /\ call[p].seen.ttl # NoExpiry
                  /\ call[p].seen.ttl <= 600)

C18_Witness ==
    \E p, q \in Callers :
        /\ Looked(p) /\ call[p].seen.ttl = 600 /\ call[p].seen.due
        /\ Looked(q) /\ call[q].seen.ver # 0 /\ ~call[q].seen.due
        /\ \/ call[q].seen.ttl = NoExpiry
           \/ call[q].seen.ttl > 600

\* C19: an ensure_valid_credentials call that found a credential whose validity
\* flag is false (whatever its expiry), or one whose expiry is within the
\* refresh buffer, makes exactly one refresh call: one from the moment it has
\* looked, and still one when it has ended.
C19_NeedsRefresh(p) ==
    /\ Looked(p) /\ call[p].seen.ver # 0
    /\ \/ ~call[p].seen.valid
       \/ call[p].seen.ttl # NoExpiry /\ call[p].seen.ttl <= TOKEN_REFRESH_BUFFER

C19_OneRefresh ==
    \A p \in Callers : C19_NeedsRefresh(p) => call[p].refreshes = 1

C19_Witness ==
    \E p, q \in Callers :
        /\ C19_NeedsRefresh(p) /\ pc[p] = "done"
        /\ ~call[p].seen.valid /\ call[p].seen.ttl > TOKEN_REFRESH_BUFFER
        /\ call[p].refreshes = 1
        /\ C19_NeedsRefresh(q) /\ pc[q] = "done"
        /\ call[q].seen.valid /\ call[q].refreshes = 1

\* C20: an ensure_valid_credentials call that found a credential whose validity
\* flag is true and whose expiry is beyond the refresh buffer (or absent)
\* has ended at once: no refresh, no authorization, no write, and it returned
\* the very credential it found, unchanged.
C20_NothingToDo(p) ==
    /\ Looked(p) /\ call[p].seen.ver # 0 /\ call[p].seen.valid
    /\ \/ call[p].seen.ttl = NoExpiry
       \/ call[p].seen.ttl > TOKEN_REFRESH_BUFFER

C20_NoRefreshNeeded ==
    \A p \in Callers :
        C20_NothingToDo(p) =>
            /\ ReturnedOk(p)
            /\ call[p].refreshes = 0 /\ call[p].auths = 0 /\ call[p].saves = 0
            /\ call[p].issued = 0
            /\ result[p].cred.id = call[p].seen.id
            /\ result[p].cred.ver = call[p].seen.ver
            /\ result[p].cred.token
            /\ IF call[p].seen.ttl = NoExpiry
               THEN result[p].cred.expiry = NoExpiry
               ELSE result[p].cred.expiry - result[p].at = call[p].seen.ttl

C20_Witness ==
    \E p, q \in Callers :
        /\ p # q
        /\ C20_NothingToDo(p) /\ ReturnedOk(p) /\ call[p].waited
        /\ IsEnsure(q) /\ call[q].refreshes = 1 /\ call[q].issued = call[p].seen.ver
        /\ creds = result[p].cred /\ stored = Pickled(creds)

\* ------------------------------------------------------------------ C21
\* C21: has_scope_changes(s) answers false exactly when the elements of s are
\* the elements of get_required_scopes(); every list with the same elements as
\* s, in any order and with any repetition, gets the answer s got; and the
\* list get_required_scopes() itself gets the answer false.
C21_DriftIsSetInequality ==
    query.op = "has_scope_changes" =>
        LET required == get_required_scopes(query.before)
        IN  /\ ~query.flag <=>
                /\ \A i \in DOMAIN query.arg : \E j \in DOMAIN required :
                        query.arg[i] = required[j]
                /\ \A j \in DOMAIN required : \E i \in DOMAIN query.arg :
                        query.arg[i] = required[j]
            /\ \A other \in ScopeLists :
                SeqToSet(other) = SeqToSet(query.arg) =>
                    has_scope_changes(query.before, other) = query.flag
            /\ ~has_scope_changes(query.before, required)

\* A list of the required scopes, in another order and with one repeated, was
\* answered with "no changes".
C21_Witness ==
    /\ query.op = "has_scope_changes" /\ ~query.flag
    /\ Len(query.arg) = 3 /\ Cardinality(SeqToSet(query.arg)) = 2
    /\ query.arg[1] # get_required_scopes(config)[1]

\* ------------------------------------------------------------------ C22
\* Every service reachable from the enabled ones by following declared
\* dependencies, to any depth.
RECURSIVE C22_Reach(_, _, _)
C22_Reach(reached, dependencies, n) ==
    IF n = 0 THEN reached
    ELSE C22_Reach(reached \cup UNION {dependencies[s] :
                                        s \in reached \cap DOMAIN dependencies},
                   dependencies, n - 1)

C22_Closure(cfg) ==
    C22_Reach(get_enabled_services(cfg), ConfigGet(cfg, "scope_dependencies"),
              Cardinality(Services))

\* C22: the scopes get_required_scopes() returns are those of exactly the
\* dependency closure of the enabled services: every service reachable from an
\* enabled one through declared dependencies, also through a dependency of a
\* dependency, contributes its scope, and no other service does.
C22_ExactlyTheClosure ==
    query.op = "get_required_scopes" =>
        LET scope_mappings == ConfigGet(query.before, "scope_mappings")
        IN  SeqToSet(query.scopes) =
                {scope_mappings[s] :
                    s \in C22_Closure(query.before) \cap DOMAIN scope_mappings}

\* ------------------------------------------------------------------ C23
\* C23: whenever a service of the required set (an enabled service or one of
\* its dependencies) has no entry in scope_mappings, get_required_scopes()
\* ends with a configuration error and returns no list.
C23_UnmappedIsAnError ==
    (/\ query.op = "get_required_scopes"
     /\ RequiredServices(get_enabled_services(query.before),
                         ConfigGet(query.before, "scope_dependencies"))
            \ DOMAIN ConfigGet(query.before, "scope_mappings") # {})
        => query.raised = "ConfigurationError"

C25_NoDuplicates ==
    query.op = "get_required_scopes" =>
        /\ \A i, j \in DOMAIN query.scopes :
                query.scopes[i] = query.scopes[j] => i = j
        /\ query.before = ConfigCalendarGmail =>
                /\ Len(query.scopes) = 2
                /\ SeqToSet(query.scopes) = {"auth/calendar", "auth/gmail.modify"}

\* ------------------------------------------------------------------ C26
\* An enabled service `s` with a declared dependency `d` that is missing from
\* enabled_services or disabled there.
C26_Unmet(cfg, s, d) ==
    /\ s \in get_enabled_services(cfg)
    /\ s \in DOMAIN ConfigGet(cfg, "scope_dependencies")
    /\ d \in ConfigGet(cfg, "scope_dependencies")[s]
    /\ \/ d \notin DOMAIN ConfigGet(cfg, "enabled_services")
       \/ ~ConfigGet(cfg, "enabled_services")[d]

\* validate_configuration() answered "invalid" with an error naming the
\* service and the dependency it lacks.
C26_Named(s, d) ==
    /\ ~query.flag
    /\ \E e \in query.errors : e.kind = "dependency" /\ e.service = s /\ e.dep = d

\* C26 as stated: for every configuration in which an enabled service has a
\* declared dependency that is absent from enabled_services or disabled,
\* validate_configuration() returns ok = false with an error naming the
\* service and the missing dependency.
C26_UnmetDependencyNamed ==
    query.op = "validate_configuration" =>
        \A s, d \in Services : C26_Unmet(query.before, s, d) => C26_Named(s, d)

\* C26, amended: the same, for the configurations that hold all three required
\* keys; when a key is missing validate_configuration() still returns
\* ok = false, with the errors naming the missing keys.
C26_UnmetDependencyNamedWhenKeysPresent ==
    query.op = "validate_configuration" =>
        /\ \A s, d \in Services :
                C26_Unmet(query.before, s, d) =>
                    IF \A i \in DOMAIN RequiredKeys : RequiredKeys[i] \in query.before.keys
                    THEN C26_Named(s, d)
                    ELSE ~query.flag
        /\ \A e \in query.errors :
                e.kind = "dependency" => C26_Unmet(query.before, e.service, e.dep)

\* docs is enabled, requires drive, and drive is disabled: the answer names
\* both.
C26_Witness ==
    /\ query.op = "validate_configuration"
    /\ C26_Unmet(query.before, "docs", "drive")
    /\ "drive" \in DOMAIN query.before.enabled_services
    /\ C26_Named("docs", "drive")

\* ------------------------------------------------------------------ C27
\* C27: for a configuration holding the three required keys,
\* validate_configuration() returns ok = false with an error naming the
\* service whenever a service reachable from the enabled ones through declared
\* dependencies, at any depth, has no entry in scope_mappings; it returns
\* ok = true only if every such service has one.
C27_UnmappedReachableNamed ==
    (/\ query.op = "validate_configuration"
     /\ \A i \in DOMAIN RequiredKeys : RequiredKeys[i] \in query.before.keys)
        => /\ \A s \in C22_Closure(query.before) \ DOMAIN query.before.scope_mappings :
                /\ ~query.flag
                /\ \E e \in query.errors : e.service = s \/ e.dep = s
           /\ query.flag =>
                C22_Closure(query.before) \subseteq DOMAIN query.before.scope_mappings

\* ------------------------------------------------------------------ C28
\* Equal in access token, refresh token, expiry and scopes (as a set).
C28_SameFields(c, d) ==
    /\ c.token = d.token
    /\ c.refresh_token = d.refresh_token
    /\ c.expiry = d.expiry
    /\ c.scopes = d.scopes

C30_FirstRun(p) ==
    /\ IsInitialize(p) /\ pc[p] # "idle"
    /\ call[p].seen = NoSeen
    /\ ~(pc[p] = "done" /\ result[p].error = "RuntimeError")

\* C30: initialize() with no stored credential and a valid configuration
\* enters _authenticate exactly once and attempts no refresh; when it returns
\* it has written the issued credential to config/token.pickle exactly once;
\* and it raises only what the authorization or the write raised, never an
\* error for the missing file.
C30_FirstRunAuthenticatesOnce ==
    \A p \in Callers :
        C30_FirstRun(p) =>
            /\ call[p].auths = 1 /\ call[p].refreshes = 0
            /\ ReturnedOk(p) =>
                /\ call[p].saves = 1 /\ call[p].issued # 0
                /\ stored.ver >= call[p].issued
                /\ stored.ver = call[p].issued /\ creds.ver = call[p].issued
                        => stored = Pickled(creds)
            /\ (pc[p] = "done" /\ ~ReturnedOk(p)) =>
                /\ result[p].error \in {"FileNotFoundError", "AuthorizationError", "OSError"}
                /\ call[p].saves = 0

\* The first start: no token file, the user granted access, the credential
\* is in memory and in the file.
C30_Witness ==
    \E p \in Callers :
        /\ C30_FirstRun(p) /\ ReturnedOk(p)
        /\ call[p].auths = 1 /\ call[p].saves = 1
        /\ creds.kind = "user" /\ creds.ver = call[p].issued
        /\ stored = Pickled(creds)

\* ------------------------------------------------------------------ C31
\* The call p has just been made as initialize() and found in
\* config/token.pickle a credential that is valid and whose scopes are the
\* required ones.
C31_LoadsValid(p) ==
    /\ call'[p].seq # call[p].seq
    /\ call'[p].kind = "initialize"
    /\ call'[p].seen.ver # 0
    /\ call'[p].seen.valid /\ ~call'[p].seen.drift

\* C31: initialize() with a stored credential that is valid and shows no scope
\* drift makes the loaded credential the one in memory and returns, with no
\* refresh, no authorization flow and no write of config/token.pickle.
C31_AdoptsStored ==
    [][\A p \in Callers :
        C31_LoadsValid(p) =>
            /\ creds'.id = call'[p].seen.id /\ creds'.id # creds.id
            /\ creds'.ver = stored.ver
            /\ creds'.token = stored.token
            /\ creds'.refresh_token = stored.refresh_token
            /\ creds'.expiry = stored.expiry
            /\ creds'.scopes = stored.scopes
            /\ stored' = stored
            /\ pc'[p] = "done" /\ result'[p].status = "ok"
            /\ call'[p].refreshes = 0 /\ call'[p].auths = 0 /\ call'[p].saves = 0
      ]_vars

\* initialize() returned having adopted a stored credential that is valid,
\* inside the refresh buffer, and carries the required scopes.
C31_Witness ==
    \E p \in Callers :
        /\ IsInitialize(p) /\ ReturnedOk(p)
        /\ call[p].seen.ver # 0 /\ call[p].seen.valid /\ ~call[p].seen.drift
        /\ call[p].seen.ttl # NoExpiry /\ call[p].seen.ttl <= TOKEN_REFRESH_BUFFER
        /\ creds.id = call[p].seen.id /\ creds.ver = stored.ver
        /\ call[p].refreshes = 0 /\ call[p].auths = 0 /\ call[p].saves = 0

\* ------------------------------------------------------------------ C32
\* The call p has just been made as get_credentials().
C32_Asked(p) ==
    /\ call'[p].seq # call[p].seq
    /\ call'[p].kind = "get_credentials"

\* C32: get_credentials() fails, with RuntimeError("Authentication not
\* initialized"), exactly when there is no credential in memory; otherwise it
\* returns the credential in memory, be it valid, expired or without token;
\* either way it leaves the credential, the token file and the lock as they
\* were and makes no refresh, authorization or write.
C32_GetCredentials ==
    [][\A p \in Callers :
        C32_Asked(p) =>
            /\ pc'[p] = "done"
            /\ result'[p].status = "error" <=> ~HasCreds(creds)
            /\ ~HasCreds(creds) => result'[p].error = "RuntimeError"
            /\ HasCreds(creds) =>
                    result'[p].status = "ok" /\ result'[p].cred = creds
            /\ creds' = creds /\ stored' = stored /\ stamp' = stamp
            /\ refresh_lock' = refresh_lock /\ waiters' = waiters
            /\ call'[p].refreshes = 0 /\ call'[p].auths = 0 /\ call'[p].saves = 0
      ]_vars

\* get_credentials() handed out a credential that had expired.
C32_Witness ==
    \E p \in Callers :
        /\ call[p].kind = "get_credentials" /\ ReturnedOk(p)
        /\ HasCreds(result[p].cred) /\ result[p].cred = creds
        /\ ~ValidAt(result[p].cred, result[p].at)

\* ------------------------------------------------------------------ C33
\* The call p has just been made.
C33_Called(p) == call'[p].seq # call[p].seq

\* C33: handle_call_tool calls initialize() exactly when the tool is not
\* get_mcp_configuration and no credential is in memory: an invocation that
\* initializes found no credential, an invocation of another tool that does
\* not initialize found one, and get_mcp_configuration returns without
\* touching the credential, the token file or the lock, with or without a
\* credential in memory.
C33_InitializeWhenNeeded ==
    [][\A p \in Callers :
        C33_Called(p) =>
            /\ call'[p].kind = "initialize" => ~HasCreds(creds)
            /\ call'[p].kind = "tool" => HasCreds(creds)
            /\ call'[p].kind = "get_mcp_configuration" =>
                /\ pc'[p] = "done" /\ result'[p].status = "ok"
                /\ creds' = creds /\ stored' = stored /\ stamp' = stamp
                /\ refresh_lock' = refresh_lock
                /\ call'[p].refreshes = 0 /\ call'[p].auths = 0
                /\ call'[p].saves = 0
      ]_vars

\* get_mcp_configuration was answered first, with no credential in memory
\* and none loaded for it; a call of another tool then initialized.
C33_Witness ==
    \E p, q \in Callers :
        /\ call[p].kind = "get_mcp_configuration" /\ ReturnedOk(p) /\ call[p].seq = 1
        /\ IsInitialize(q) /\ ReturnedOk(q) /\ call[q].seq = 2
        /\ call[q].seen.id = 2
        /\ HasCreds(creds)

\* ------------------------------------------------------------------ C34
\* The call p has just been made as initialize() and loaded a credential that
\* is not valid.
C34_LoadsInvalid(p) ==
    /\ call'[p].seq # call[p].seq
    /\ call'[p].kind = "initialize"
    /\ call'[p].seen.ver # 0
    /\ ~call'[p].seen.valid

\* The loaded credential is expired, carries a refresh token, and its scopes,
\* where it has any, are the required ones.
C34_Refreshable(p) ==
    /\ call'[p].seen.ttl # NoExpiry /\ call'[p].seen.ttl <= 0
    /\ stored.refresh_token
    /\ ~(call'[p].seen.scoped /\ call'[p].seen.drift)

C35_MissingKeys(cfg) ==
    {RequiredKeys[i] : i \in {j \in DOMAIN RequiredKeys : RequiredKeys[j] \notin cfg.keys}}

\* C35: when one or more of the keys enabled_services, scope_dependencies and
\* scope_mappings is missing, validate_configuration() returns ok = false
\* with exactly one error per missing key, naming it, and with no error from
\* a dependency check or a mapping check.
C35_MissingKeysReported ==
    (query.op = "validate_configuration" /\ C35_MissingKeys(query.before) # {})
        => /\ ~query.flag
           /\ \A k \in C35_MissingKeys(query.before) :
                \E e \in query.errors : e.kind = "key" /\ e.service = k
           /\ \A e \in query.errors :
                e.kind = "key" /\ e.service \in C35_MissingKeys(query.before)
           /\ Cardinality(query.errors) = Cardinality(C35_MissingKeys(query.before))

\* scope_mappings is missing from a configuration whose enabled service docs
\* lacks its dependency: the only error is the one for the key.
C35_Witness ==
    /\ query.op = "validate_configuration"
    /\ C35_MissingKeys(query.before) = {"scope_mappings"}
    /\ get_enabled_services(query.before) = {"docs"}
    /\ "docs" \in DOMAIN ConfigGet(query.before, "scope_dependencies")
    /\ ~query.flag /\ Cardinality(query.errors) = 1

\* ------------------------------------------------------------------ C36
\* The lock is held only by a call of ensure_valid_credentials whose exchange
\* is in flight.
C36_HeldOnlyInFlight ==
    /\ refresh_lock # 0 =>
            IsEnsure(refresh_lock) /\ InFlight(refresh_lock)
    /\ \A p \in Callers :
            (IsEnsure(p) /\ pc[p] = "done") => refresh_lock # p

\* C36: refresh_lock is released on every exit of ensure_valid_credentials,
\* by return and by exception alike: a call that has ended does not hold the
\* lock, the lock is held only while its holder's exchange is in flight, and
\* a caller that is first in line for a free lock does get it, so a failed
\* call leaves later callers able to start their own attempt.
C36_LockReleased ==
    /\ []C36_HeldOnlyInFlight
    /\ \A p \in Callers :
            (pc[p] = "waiting" /\ refresh_lock = 0 /\ Head(waiters) = p)
                ~> (pc[p] # "waiting")

\* The refresh of p failed with an error; q, which had waited for the lock
\* behind it, now holds it and has its own refresh in flight.
C36_Witness ==
    \E p, q \in Callers :
        /\ IsEnsure(p) /\ pc[p] = "done" /\ result[p].status = "error"
        /\ call[p].refreshes = 1
        /\ IsEnsure(q) /\ call[q].waited /\ call[q].seq > call[p].seq
        /\ pc[q] = "refreshing" /\ call[q].refreshes = 1
        /\ refresh_lock = q

\* ------------------------------------------------------------------ C37
\* The call p takes a step.
C37_Steps(p) == pc'[p] # pc[p] \/ call'[p] # call[p]

\* The call p ends here with the error of the authorization that
\* refresh_token() fell back to after RefreshError.
C37_FallbackFailed(p) ==
    /\ pc[p] \in {"refreshing", "authenticating"} /\ pc'[p] = "done"
    /\ call'[p].refreshes = 1 /\ call'[p].auths = 1
    /\ result'[p].error \in {"AuthorizationError", "FileNotFoundError"}

\* C37: when the refresh fails with RefreshError and the authorization that
\* refresh_token() falls back to fails too, the error reaches the caller,
\* nothing is written, and the credential in memory and the token file are
\* what they were: the failing step changes neither, and no step of a call of
\* ensure_valid_credentials that has obtained no credential changes either.
C37_FailureChangesNothing ==
    [][\A p \in Callers :
        /\ C37_FallbackFailed(p) =>
                /\ result'[p].status = "error"
                /\ creds' = creds /\ stored' = stored
                /\ call'[p].saves = 0 /\ call'[p].issued = 0
        /\ (/\ C37_Steps(p) /\ call'[p].kind = "ensure"
            /\ call'[p].issued = 0 /\ result'[p].status # "ok")
                => /\ creds' = creds /\ stored' = stored
                   /\ call'[p].saves = 0
      ]_vars

\* ensure_valid_credentials ended with the error of the fallback
\* authorization; the credential it found is still in memory and in the file.
C37_Witness ==
    \E p \in Callers :
        /\ IsEnsure(p) /\ pc[p] = "done"
        /\ result[p].status = "error" /\ result[p].error = "AuthorizationError"
        /\ call[p].refreshes = 1 /\ call[p].auths = 1 /\ call[p].saves = 0
        /\ HasCreds(creds)
        /\ creds.id = call[p].seen.id /\ creds.ver = call[p].seen.ver
        /\ stored.ver = creds.ver

\* ------------------------------------------------------------------ C38
\* C38: a failure inside refresh_token() that is not a RefreshError, be it an
\* exception of creds.refresh() or the failed write after a successful
\* refresh, reaches the caller as it is, with no authorization started; a
\* call that made both a refresh and an authorization made the second because
\* of RefreshError.
C38_OnlyRefreshErrorReauthorizes ==
    \A p \in Callers :
        /\ call[p].refresh_error \notin {"", "RefreshError"} =>
                /\ pc[p] = "done" /\ result[p].status = "error"
                /\ result[p].error = call[p].refresh_error
                /\ call[p].auths = 0 /\ call[p].saves = 0
        /\ (/\ pc[p] = "done" /\ result[p].error = "OSError"
            /\ call[p].refreshes = 1 /\ call[p].refresh_error = "")
                => call[p].auths = 0
        /\ (call[p].refreshes >= 1 /\ call[p].auths >= 1) =>
                call[p].refresh_error = "RefreshError"

\* ensure_valid_credentials ended with the transport error of its refresh,
\* no authorization made, the credential it found still in memory, the lock
\* free.
C38_Witness ==
    \E p \in Callers :
        /\ IsEnsure(p) /\ pc[p] = "done"
        /\ result[p].error = "TransportError"
        /\ call[p].refresh_error = "TransportError"
        /\ call[p].refreshes = 1 /\ call[p].auths = 0
        /\ creds.id = call[p].seen.id /\ creds.ver = call[p].seen.ver
        /\ refresh_lock = 0

\* ------------------------------------------------------------------ C39
\* C39: for a configuration that validate_configuration() accepts,
\* get_required_scopes() skips nothing: every enabled service and every
\* declared dependency of one has an entry in scope_mappings and its scope is
\* in the returned list, and the list holds nothing else.
C39_ValidatedMeansComplete ==
    (query.op = "get_required_scopes" /\ validate_configuration(query.before).ok)
        => LET enabled_services == get_enabled_services(query.before)
               dependencies == query.before.scope_dependencies
               needed == enabled_services \cup
                         UNION {dependencies[s] :
                                    s \in enabled_services \cap DOMAIN dependencies}
           IN  /\ \A s \in needed :
                    /\ s \in DOMAIN query.before.scope_mappings
                    /\ \E i \in DOMAIN query.scopes :
                            query.scopes[i] = query.before.scope_mappings[s]
               /\ Len(query.scopes) = Cardinality(needed)

\* An accepted configuration with docs and its dependency drive enabled: both
\* scopes were returned.
C39_Witness ==
    /\ query.op = "get_required_scopes"
    /\ validate_configuration(query.before).ok
    /\ get_enabled_services(query.before) = {"docs", "drive"}
    /\ "docs" \in DOMAIN query.before.scope_dependencies
    /\ SeqToSet(query.scopes) = {"auth/documents", "auth/drive.file"}

\* ------------------------------------------------------------------ C40
\* C40: with the token exchange as a suspension point, while the refresh or
\* the authorization started by an initialize() call is in flight no other
\* call, be it another initialize() or an ensure_valid_credentials, has a
\* refresh or an authorization in flight.
C40_InitializeExclusive ==
    \A p \in Callers :
        IsInitialize(p) /\ InFlight(p) =>
            \A q \in Callers \ {p} : ~InFlight(q)

====
